---- MODULE Spec2Model ----
(***************************************************************************)
(* Model of dvc/commands/dag.py: the `dvc dag` graph pipeline              *)
(*   _collect_targets -> _transform -> _filter -> _collapse_graph ->       *)
(*   _show_dot | _show_mermaid | _show_ascii                               *)
(* Labels are sequences of one-character strings, so that split("@"),      *)
(* label[0], label[-1], list.extend(str) and sorted() act on characters.   *)
(* A graph value is [nodes, edges]; the only place where the iteration     *)
(* order of graph.nodes matters (the loop variable left over in            *)
(* _collapse_get_nodes, the order of the pipelines) draws it with \E.      *)
(***************************************************************************)
EXTENDS Integers, Sequences, FiniteSets, TLC

VARIABLES pc, index, target, outs, full, collapse, targets, graph,
          new_graph, filtered_graph, passed, output, label, quoted

vars == <<pc, index, target, outs, full, collapse, targets, graph,
          new_graph, filtered_graph, passed, output, label, quoted>>

\* ---------------------------------------------------------------- bounds
MaxStages == 3
MaxLabelLen == 4

\* ------------------------------------------------------------ characters
AT == "@"
QUOTE == "\""
SLASH == "/"
\* the grave accent, which a TLA+ string cannot hold
BACKTICK == "U+0060"

\* code points of the characters used, as Python's str comparison sees them
Ord(c) ==
    CASE c = "\"" -> 34
      [] c = "/" -> 47
      [] c = "1" -> 49
      [] c = "2" -> 50
      [] c = "@" -> 64
      [] c = "a" -> 97
      [] c = "b" -> 98
      [] c = "c" -> 99
      [] c = "d" -> 100
      [] c = "e" -> 101
      [] c = "q" -> 113
      [] c = "x" -> 120
      [] c = "y" -> 121

None == <<>>

\* ----------------------------------------------------------- the project
\* stage names (Stage.addressing) and output paths (str(out)) of the project
StageNames ==
    { <<"a", "@", "1">>, <<"a", "@", "2">>, <<"b">>, <<"c">> }

\* Stage.outs of each stage of the project
OutsOf(name) ==
    CASE name = <<"a", "@", "1">> -> << <<"d", "/", "x">> >>
      [] name = <<"a", "@", "2">> -> << <<"d", "/", "y">> >>
      [] name = <<"b">> -> << <<"e">>, <<"\"", "q", "\"">> >>
      [] OTHER -> << >>

Range(s) == { s[i] : i \in 1..Len(s) }

StageNode(name) == [kind |-> "stage", addressing |-> name, path |-> None]
OutNode(p) == [kind |-> "out", addressing |-> None, path |-> p]

EmptyGraph == [nodes |-> {}, edges |-> {}]

\* ------------------------------------------------------- graph utilities
Succ(g, n) == { e[2] : e \in { d \in g.edges : d[1] = n } }

RECURSIVE ReachFrom(_, _)
\* nodes reachable from the set `seen` along edges in their stored direction
ReachFrom(g, seen) ==
    LET nxt == seen \cup UNION { Succ(g, n) : n \in seen }
    IN  IF nxt = seen THEN seen ELSE ReachFrom(g, nxt)

\* DiGraph.reverse()
Reverse(g) ==
    [nodes |-> g.nodes, edges |-> { <<e[2], e[1]>> : e \in g.edges }]

\* faulty variant: the nodes that depend on the source, not its dependencies
Descendants_Ancestors(g, n) == ReachFrom(Reverse(g), {n}) \ {n}

\* nx.descendants(G, source): reachable from source, source itself excluded
Descendants(g, n) == ReachFrom(g, {n}) \ {n}

\* faulty variant: the edges keep their direction
ToUndirected_Directed(g) == g

\* Graph.to_undirected(): every edge in both directions
ToUndirected(g) ==
    [nodes |-> g.nodes,
     edges |-> g.edges \cup { <<e[2], e[1]>> : e \in g.edges }]

\* nx.node_connected_component(G, n) of an undirected graph
NodeConnectedComponent(ug, n) == ReachFrom(ug, {n})

\* Graph.remove_nodes_from(ns): the nodes and every edge incident to them
RemoveNodesFrom(g, ns) ==
    [nodes |-> g.nodes \ ns,
     edges |-> { e \in g.edges : e[1] \notin ns /\ e[2] \notin ns }]

\* Graph.remove_edges_from(es)
RemoveEdgesFrom(g, es) == [nodes |-> g.nodes, edges |-> g.edges \ es]

\* Graph.add_nodes_from(ns)
AddNodesFrom(g, ns) == [nodes |-> g.nodes \cup ns, edges |-> g.edges]

\* Graph.add_edges_from(es): endpoints that are missing are added as nodes
AddEdgesFrom(g, es) ==
    [nodes |-> g.nodes \cup { e[1] : e \in es } \cup { e[2] : e \in es },
     edges |-> g.edges \cup es]

\* nx.relabel_nodes(G, mapping), mapping being the dict {n: f(n) for n in G}:
\* the image of the nodes and of the edges (labels mapped to the same label
\* are merged)
RelabelNodes(g, mapping) ==
    [nodes |-> { mapping[n] : n \in g.nodes },
     edges |-> { <<mapping[e[1]], mapping[e[2]]>> : e \in g.edges }]

IsAcyclic(g) == \A n \in g.nodes : n \notin UNION { ReachFrom(g, {m}) : m \in Succ(g, n) }

\* --------------------------------------------------------------- strings
RECURSIVE IndexOf(_, _, _)
\* position of the first occurrence of c in s at or after i, 0 if none
IndexOf(s, c, i) ==
    IF i > Len(s) THEN 0
    ELSE IF s[i] = c THEN i ELSE IndexOf(s, c, i + 1)

\* the Python test `c in s`
Contains(s, c) == IndexOf(s, c, 1) # 0

\* s.split(c)[0]: the part before the first c, all of s if there is none
SplitFirst(s, c) ==
    IF Contains(s, c) THEN SubSeq(s, 1, IndexOf(s, c, 1) - 1) ELSE s

RECURSIVE Parts(_)
\* fs.parts(path): the components of a path between the "/" separators
Parts(p) ==
    IF Contains(p, SLASH)
    THEN <<SubSeq(p, 1, IndexOf(p, SLASH, 1) - 1)>>
         \o Parts(SubSeq(p, IndexOf(p, SLASH, 1) + 1, Len(p)))
    ELSE <<p>>

IsPrefix(s, t) == Len(s) <= Len(t) /\ SubSeq(t, 1, Len(s)) = s

RECURSIVE StrLess(_, _)
\* s < t as Python compares str: lexicographic by code point
StrLess(s, t) ==
    IF s = <<>> THEN t # <<>>
    ELSE IF t = <<>> THEN FALSE
    ELSE IF s[1] = t[1] THEN StrLess(Tail(s), Tail(t))
    ELSE Ord(s[1]) < Ord(t[1])

RECURSIVE SortedSeq(_)
\* sorted(S) of a set of strings
SortedSeq(S) ==
    IF S = {} THEN <<>>
    ELSE LET m == CHOOSE x \in S : \A y \in S \ {x} : StrLess(x, y)
         IN  <<m>> \o SortedSeq(S \ {m})

RECURSIVE Flatten(_)
Flatten(ss) == IF ss = <<>> THEN <<>> ELSE Head(ss) \o Flatten(Tail(ss))

\* ---------------------------------------------------------------- index
\* all outputs of the stages of a stage graph
AllOuts(sg) == UNION { Range(OutsOf(n.addressing)) : n \in sg.nodes }

\* Index.outs_graph: out -> out' when the stage of out depends on the stage
\* of out'
OutsGraph(sg) ==
    [nodes |-> { OutNode(p) : p \in AllOuts(sg) },
     edges |-> UNION { { <<OutNode(p), OutNode(r)>> :
                            p \in Range(OutsOf(e[1].addressing)),
                            r \in Range(OutsOf(e[2].addressing)) } :
                       e \in sg.edges }]

\* the stage graphs of a project: acyclic, without self-loops
StageGraphs ==
    UNION { { [nodes |-> { StageNode(n) : n \in ns },
               edges |-> { <<StageNode(e[1]), StageNode(e[2])>> : e \in es }] :
              es \in { d \in SUBSET { p \in ns \X ns : p[1] # p[2] } :
                         IsAcyclic([nodes |-> ns, edges |-> d]) } } :
            ns \in { s \in SUBSET StageNames : Cardinality(s) <= MaxStages } }

\* the targets a user can name: none, a stage, or a path at or above an output
Targets(idx) ==
    {None}
    \cup { n.addressing : n \in idx.graph.nodes }
    \cup UNION { { Flatten([i \in 1..k |->
                              IF i = 1 THEN Parts(n.path)[i]
                              ELSE <<SLASH>> \o Parts(n.path)[i]]) :
                   k \in 1..Len(Parts(n.path)) } : n \in idx.outs_graph.nodes }

\* repo.stage.collect_granular(target): (stage, path) pairs; a stage name
\* gives the stage with no path, a path gives every stage with an output at
\* or below it, qualified with that path
CollectGranular(idx, t) ==
    IF StageNode(t) \in idx.graph.nodes
    THEN << [stage |-> StageNode(t), path |-> None] >>
    ELSE LET hit == { n.addressing : n \in { s \in idx.graph.nodes :
                         \E o \in Range(OutsOf(s.addressing)) :
                             IsPrefix(Parts(t), Parts(o)) } }
             srt == SortedSeq(hit)
         IN  [i \in 1..Len(srt) |-> [stage |-> StageNode(srt[i]), path |-> t]]

\* repo.index.outs_trie.itervalues(prefix=repo.fs.parts(path))
OutsTrieValues(idx, p) ==
    LET hit == { n.path : n \in { o \in idx.outs_graph.nodes :
                                    IsPrefix(Parts(p), Parts(o.path)) } }
        srt == SortedSeq(hit)
    IN  [i \in 1..Len(srt) |-> OutNode(srt[i])]

\* str(out)
Str(node) == node.path

\* ----------------------------------------------------- _collect_targets
\* targets.extend(x) where x is a str: one element per character
ExtendWithStr(s) == [i \in 1..Len(s) |-> <<s[i]>>]

RECURSIVE CollectOuts(_, _)
\* the loop of lines 84-90 over the (stage, path) pairs
CollectOuts(idx, pairs) ==
    IF pairs = <<>> THEN <<>>
    ELSE LET stage == Head(pairs).stage
             path == Head(pairs).path
             vals == OutsTrieValues(idx, path)
         IN  (IF path = None
              THEN [i \in 1..Len(OutsOf(stage.addressing)) |->
                        OutsOf(stage.addressing)[i]]
              ELSE Flatten([i \in 1..Len(vals) |-> ExtendWithStr(Str(vals[i]))]))
             \o CollectOuts(idx, Tail(pairs))

CollectTargets(idx, t, o) ==
    IF t = None THEN <<>>
    ELSE LET pairs == CollectGranular(idx, t)
         IN  IF ~o
             THEN [i \in 1..Len(pairs) |-> pairs[i].stage.addressing]
             ELSE CollectOuts(idx, pairs)

\* ------------------------------------------------------------ _transform
Relabel(node) == IF node.kind = "stage" THEN node.addressing ELSE Str(node)

Transform(idx, o) ==
    LET g == IF o THEN idx.outs_graph ELSE idx.graph
    IN  RelabelNodes(g, [n \in g.nodes |-> Relabel(n)])

\* ------------------------------------------------------------------ Init
NoOutput == [fmt |-> "none", dot |-> EmptyGraph, lines |-> <<>>]

Init ==
    /\ pc = "start"
    /\ \E sg \in StageGraphs : index = [graph |-> sg, outs_graph |-> OutsGraph(sg)]
    /\ target = None
    /\ outs = FALSE
    /\ full = FALSE
    /\ collapse = FALSE
    /\ targets = <<>>
    /\ graph = EmptyGraph
    /\ new_graph = EmptyGraph
    /\ filtered_graph = "none"
    /\ passed = EmptyGraph
    /\ output = NoOutput
    /\ label = None
    /\ quoted = None

\* _build, line 171: targets = _collect_targets(repo, target, outs)
DoCollectTargets ==
    /\ pc = "start"
    /\ \E t \in Targets(index), o \in BOOLEAN :
          /\ target' = t
          /\ outs' = o
          /\ targets' = CollectTargets(index, t, o)
    /\ pc' = "collected"
    /\ UNCHANGED <<index, full, collapse, graph, new_graph, filtered_graph,
                   passed, output, label, quoted>>

\* _build, line 172: graph = _transform(repo.index, outs)
DoTransform ==
    /\ pc = "collected"
    /\ graph' = Transform(index, outs)
    /\ pc' = "transformed"
    /\ UNCHANGED <<index, target, outs, full, collapse, targets, new_graph,
                   filtered_graph, passed, output, label, quoted>>

\* --------------------------------------------------------------- _filter
\* lines 113-127, for a non-empty list of targets that are nodes of graph
Filter(g, ts, f) ==
    LET descendants == UNION { Descendants(g, t) \cup {t} : t \in Range(ts) }
        step1 == IF ~f THEN RemoveNodesFrom(g, g.nodes \ descendants) ELSE g
        undirected == ToUndirected(step1)
        connected == UNION { NodeConnectedComponent(undirected, t) : t \in Range(ts) }
    IN  RemoveNodesFrom(step1, step1.nodes \ connected)

\* _build, line 173: filtered_graph = _filter(graph, targets, full).
\* No targets: the graph object itself is returned.  A target that is not a
\* node makes nx.descendants / nx.node_connected_component raise.
DoFilter ==
    /\ pc = "transformed"
    /\ \E f \in BOOLEAN :
          /\ full' = f
          /\ passed' = graph
          /\ IF targets = <<>>
             THEN /\ filtered_graph' = "graph"
                  /\ pc' = "filtered"
                  /\ UNCHANGED new_graph
             ELSE IF ~(Range(targets) \subseteq graph.nodes)
             THEN /\ pc' = "raised"
                  /\ UNCHANGED <<new_graph, filtered_graph>>
             ELSE /\ new_graph' = Filter(graph, targets, f)
                  /\ filtered_graph' = "new_graph"
                  /\ pc' = "filtered"
    /\ UNCHANGED <<index, target, outs, collapse, targets, graph,
                   output, label, quoted>>

\* ------------------------------------------------------- _collapse_graph
\* lines 130-138: `last` is the value the loop variable _node is left with,
\* the last node of graph.nodes; line 137 runs once, after the loop
CollapseGetNodes(g, last) ==
    [new_nodes |-> {SplitFirst(last, AT)},
     nodes_to_remove |-> { n \in g.nodes : Contains(n, AT) }]

\* lines 141-157
CollapseGetEdges(g) ==
    LET touched == { e \in g.edges : Contains(e[1], AT) \/ Contains(e[2], AT) }
    IN  [new_edges |-> { <<SplitFirst(e[1], AT), SplitFirst(e[2], AT)>> : e \in touched },
         edges_to_remove |-> touched]

\* lines 160-167, on a graph with at least one node
CollapseGraph(g, last) ==
    LET ns == CollapseGetNodes(g, last)
        es == CollapseGetEdges(g)
        g1 == RemoveEdgesFrom(g, es.edges_to_remove)
        g2 == AddNodesFrom(g1, ns.new_nodes)
        g3 == AddEdgesFrom(g2, es.new_edges)
    IN  RemoveNodesFrom(g3, ns.nodes_to_remove)

\* the object filtered_graph refers to
Deref == IF filtered_graph = "graph" THEN graph ELSE new_graph

\* _build, lines 174-176: collapse is applied to `graph` (in place), and its
\* return value, the same object, becomes filtered_graph.  With no node the
\* loop variable of _collapse_get_nodes is unbound at line 137.
DoCollapse ==
    /\ pc = "filtered"
    /\ collapse' = TRUE
    /\ passed' = graph
    /\ IF graph.nodes = {}
       THEN /\ pc' = "raised"
            /\ UNCHANGED <<graph, filtered_graph>>
       ELSE \E last \in graph.nodes :
               /\ graph' = CollapseGraph(graph, last)
               /\ filtered_graph' = "graph"
               /\ pc' = "built"
    /\ UNCHANGED <<index, target, outs, full, targets, new_graph, output,
                   label, quoted>>

\* _build, lines 174 and 176 with collapse=False
DoReturn ==
    /\ pc = "filtered"
    /\ collapse' = FALSE
    /\ pc' = "built"
    /\ UNCHANGED <<index, target, outs, full, targets, graph, new_graph,
                   filtered_graph, passed, output, label, quoted>>

\* ---------------------------------------------------------- _quote_label
\* lines 25-31, for a non-empty label
QuoteLabel(node) ==
    IF node[1] # QUOTE /\ node[Len(node)] # QUOTE
    THEN <<QUOTE>> \o node \o <<QUOTE>>
    ELSE node

\* -------------------------------------------------------------- _show_dot
\* line 42: nx.relabel_nodes(graph, _quote_label, copy=False), in place
QuoteInPlace(g) == RelabelNodes(g, [n \in g.nodes |-> QuoteLabel(n)])

\* line 43: the graph handed to write_dot
DotGraph(g) == Reverse(QuoteInPlace(g))

\* ---------------------------------------------------------- get_pipelines
\* the weakly connected components of the graph, each as a subgraph
Pipelines(g) ==
    { RemoveNodesFrom(g, g.nodes \ NodeConnectedComponent(ToUndirected(g), n)) :
        n \in g.nodes }

\* the orders in which the pipelines can come, one per order of graph.nodes
PipelineOrders(g) ==
    LET ps == Pipelines(g)
    IN  { s \in [1..Cardinality(ps) -> ps] : Range(s) = ps }

\* ---------------------------------------------------------- _show_mermaid
\* str(n) of a counter below 100
Digits(n) ==
    LET d(k) == CASE k = 0 -> "0" [] k = 1 -> "1" [] k = 2 -> "2" [] k = 3 -> "3"
                  [] k = 4 -> "4" [] k = 5 -> "5" [] k = 6 -> "6" [] k = 7 -> "7"
                  [] k = 8 -> "8" [] k = 9 -> "9"
    IN  IF n < 10 THEN <<d(n)>> ELSE <<d(n \div 10), d(n % 10)>>

\* line 60: f"node{total_nodes}"
NodeId(n) == <<"n", "o", "d", "e">> \o Digits(n)

\* line 61, without the newline: f'\t{node_id}["{node}"]'
DeclLine(id, node) == <<"\t">> \o id \o <<"[", QUOTE>> \o node \o <<QUOTE, "]">>

\* line 65, without the newline: f"\t{a_id}-->{b_id}"
ArrowLine(aid, bid) == <<"\t">> \o aid \o <<"-", "-", ">">> \o bid

\* tuple comparison of two pairs of strings
PairLess(p, r) == StrLess(p[1], r[1]) \/ (p[1] = r[1] /\ StrLess(p[2], r[2]))

RECURSIVE SortedPairs(_)
\* sorted(S) of a set of pairs of strings
SortedPairs(S) ==
    IF S = {} THEN <<>>
    ELSE LET m == CHOOSE x \in S : \A y \in S \ {x} : PairLess(x, y)
         IN  <<m>> \o SortedPairs(S \ {m})

\* faulty variant: the edges are not turned around
MermaidEdges_Unswapped(pipeline) == SortedPairs(pipeline.edges)

\* line 63: sorted((str(a), str(b)) for b, a in pipeline.edges)
MermaidEdges(pipeline) == SortedPairs({ <<e[2], e[1]>> : e \in pipeline.edges })

\* lines 56-62 for one pipeline: node -> identifier, counting on from total
NodeIds(pipeline, total) ==
    LET nodes == SortedSeq(pipeline.nodes)
    IN  [n \in pipeline.nodes |->
            NodeId(total + (CHOOSE i \in 1..Len(nodes) : nodes[i] = n))]

\* lines 56-65 for one pipeline: its lines
PipelineLines(pipeline, total) ==
    LET nodes == SortedSeq(pipeline.nodes)
        node_ids == NodeIds(pipeline, total)
        edges == MermaidEdges(pipeline)
    IN  [i \in 1..Len(nodes) |-> DeclLine(node_ids[nodes[i]], nodes[i])]
        \o [i \in 1..Len(edges) |-> ArrowLine(node_ids[edges[i][1]], node_ids[edges[i][2]])]

RECURSIVE MermaidLines(_, _)
\* lines 55-65: the lines of all pipelines, total_nodes carried across them
MermaidLines(pipelines, total) ==
    IF pipelines = <<>> THEN <<>>
    ELSE PipelineLines(Head(pipelines), total)
         \o MermaidLines(Tail(pipelines), total + Cardinality(Head(pipelines).nodes))

\* lines 52-70: the text, as its lines
ShowMermaid(pipelines, markdown) ==
    LET text == << <<"flowchart TD">> >> \o MermaidLines(pipelines, 0)
    IN  IF markdown
        THEN << <<BACKTICK, BACKTICK, BACKTICK, "mermaid">> >> \o text
             \o << <<BACKTICK, BACKTICK, BACKTICK>> >>
        ELSE text

\* ------------------------------------------------------------ _show_ascii
\* line 20: what draw() is called with, pipeline by pipeline
ShowAscii(pipelines) ==
    [i \in 1..Len(pipelines) |->
        [nodes |-> pipelines[i].nodes, edges |-> pipelines[i].edges]]

\* ------------------------------------------------------------- renderers
\* _show_dot(graph) on the graph _build returned: the graph object is
\* relabelled in place, its reverse goes to the dot writer
DoShowDot ==
    /\ pc = "built"
    /\ passed' = Deref
    /\ IF filtered_graph = "graph"
       THEN graph' = QuoteInPlace(graph) /\ UNCHANGED new_graph
       ELSE new_graph' = QuoteInPlace(new_graph) /\ UNCHANGED graph
    /\ output' = [fmt |-> "dot", dot |-> DotGraph(Deref), lines |-> <<>>]
    /\ pc' = "shown"
    /\ UNCHANGED <<index, target, outs, full, collapse, targets,
                   filtered_graph, label, quoted>>

\* _show_mermaid(graph, markdown) on the graph _build returned
DoShowMermaid ==
    /\ pc = "built"
    /\ passed' = Deref
    /\ \E pipelines \in PipelineOrders(Deref), markdown \in BOOLEAN :
          output' = [fmt |-> "mermaid", dot |-> EmptyGraph,
                     lines |-> ShowMermaid(pipelines, markdown)]
    /\ pc' = "shown"
    /\ UNCHANGED <<index, target, outs, full, collapse, targets, graph,
                   new_graph, filtered_graph, label, quoted>>

\* _show_ascii(graph) on the graph _build returned
DoShowAscii ==
    /\ pc = "built"
    /\ passed' = Deref
    /\ \E pipelines \in PipelineOrders(Deref) :
          output' = [fmt |-> "ascii", dot |-> EmptyGraph,
                     lines |-> ShowAscii(pipelines)]
    /\ pc' = "shown"
    /\ UNCHANGED <<index, target, outs, full, collapse, targets, graph,
                   new_graph, filtered_graph, label, quoted>>

Next ==
    \/ DoCollectTargets
    \/ DoTransform
    \/ DoFilter
    \/ DoCollapse
    \/ DoReturn
    \/ DoShowDot
    \/ DoShowMermaid
    \/ DoShowAscii

Spec == Init /\ [][Next]_vars

\* -------------------------------------------- _quote_label on every label
\* the non-empty labels of at most MaxLabelLen characters over a, @ and "
LabelStrings ==
    UNION { [1..n -> {"a", AT, QUOTE}] : n \in 1..MaxLabelLen }

InitQuote ==
    /\ pc = "label"
    /\ label \in LabelStrings
    /\ quoted = None
    /\ index = [graph |-> EmptyGraph, outs_graph |-> EmptyGraph]
    /\ target = None
    /\ outs = FALSE
    /\ full = FALSE
    /\ collapse = FALSE
    /\ targets = <<>>
    /\ graph = EmptyGraph
    /\ new_graph = EmptyGraph
    /\ filtered_graph = "none"
    /\ passed = EmptyGraph
    /\ output = NoOutput

\* _quote_label(node)
DoQuoteLabel ==
    /\ pc = "label"
    /\ quoted' = QuoteLabel(label)
    /\ pc' = "quoted"
    /\ UNCHANGED <<index, target, outs, full, collapse, targets, graph,
                   new_graph, filtered_graph, passed, output, label>>

NextQuote == DoQuoteLabel

SpecQuote == InitQuote /\ [][NextQuote]_vars

\* ================================================================ claims
RECURSIVE Closure(_, _)
\* the transitive closure of the relation R over the nodes ns
Closure(R, ns) ==
    IF ns = {} THEN R
    ELSE LET k == CHOOSE n \in ns : TRUE
             R1 == Closure(R, ns \ {k})
         IN  R1 \cup { p \in { <<e[1], d[2]>> : e \in R1, d \in R1 } :
                         <<p[1], k>> \in R1 /\ <<k, p[2]>> \in R1 }

\* t and everything t transitively depends on in g
DependsOnSet(g, t) ==
    {t} \cup { n \in g.nodes : <<t, n>> \in Closure(g.edges, g.nodes) }

\* the undirected connected component of t in g
WeakComponent(g, t) ==
    {t} \cup { n \in g.nodes :
                 <<t, n>> \in Closure(g.edges \cup { <<e[2], e[1]>> : e \in g.edges },
                                      g.nodes) }

\* the group key of a label with "@", the label itself without
GroupKey(n) == SplitFirst(n, AT)

\* _filter has returned a new graph for a non-empty list of targets
Filtered == pc = "filtered" /\ targets # <<>>

\* C1: with full=false and targets that are nodes of the graph, the nodes of
\* the graph _filter returns are the targets and everything they transitively
\* depend on, within the undirected components of the targets; for a single
\* target T exactly {T} and the descendants of T.
C1_ScopeAncestorsOnly ==
    (Filtered /\ ~full) =>
        LET ts == Range(targets)
        IN  /\ new_graph.nodes =
                  (UNION { DependsOnSet(passed, t) : t \in ts })
                  \cap (UNION { WeakComponent(passed, t) : t \in ts })
            /\ \A t \in ts : ts = {t} => new_graph.nodes = DependsOnSet(passed, t)

\* a target with a dependency, in a graph with a node that depends on it:
\* the dependency is kept, the dependent is dropped
C1_Witness ==
    /\ Filtered /\ ~full
    /\ \E t \in Range(targets) :
          /\ Range(targets) = {t}
          /\ \E d \in new_graph.nodes : <<t, d>> \in passed.edges
          /\ \E a \in passed.nodes \ new_graph.nodes : <<a, t>> \in passed.edges

\* C2: with full=true and targets that are nodes of the graph, the nodes of
\* the graph _filter returns are the union of the undirected connected
\* components of the targets in the input graph.
C2_ScopeFull ==
    (Filtered /\ full) =>
        new_graph.nodes = UNION { WeakComponent(passed, t) : t \in Range(targets) }

\* a target whose component holds a node that depends on it, in a graph with
\* a node outside that component
C2_Witness ==
    /\ Filtered /\ full
    /\ \E t \in Range(targets) :
          \E a \in new_graph.nodes : <<a, t>> \in passed.edges
    /\ passed.nodes \ new_graph.nodes # {}

\* the nodes that survive _filter for the targets of this run
ScopedNodes == IF targets = <<>> THEN passed.nodes ELSE new_graph.nodes

\* C3: _build(..., collapse=True) returns the collapse of the filtered graph:
\* every node of the result is the group key (or the label) of a node that
\* survives _filter.
C3_CollapseOfScoped ==
    (pc = "built" /\ collapse) =>
        \A n \in Deref.nodes : \E m \in ScopedNodes : n = GroupKey(m)

\* C4: the nodes of the graph _collapse_graph returns are the group keys of
\* the nodes with "@" and the nodes without "@", whatever node comes last.
C4_CollapseNodeSet ==
    (pc = "built" /\ collapse) =>
        graph.nodes = { GroupKey(n) : n \in { m \in passed.nodes : Contains(m, AT) } }
                      \cup { n \in passed.nodes : ~Contains(n, AT) }

\* C5: collapsing a graph without self-loops gives a graph without self-loops.
C5_NoSelfEdge ==
    (pc = "built" /\ collapse /\ \A e \in passed.edges : e[1] # e[2]) =>
        \A e \in graph.edges : e[1] # e[2]

\* _collapse_graph was called (and returned, or raised)
CollapseCalled == collapse /\ pc \in {"built", "raised"}

\* C6: _collapse_graph completes on every graph, collapsing its result again
\* changes nothing, and a graph without "@" (the empty one included) comes
\* back unchanged.
C6_CollapseIdempotent ==
    CollapseCalled =>
        /\ pc = "built"
        /\ \A last \in graph.nodes : CollapseGraph(graph, last) = graph
        /\ (\A n \in passed.nodes : ~Contains(n, AT)) => graph = passed

\* a declaration line of a flowchart: a tab, the identifier, ["label"]
IsDeclaration(line) == line[1] = "\t" /\ line[Len(line)] = "]"

\* an arrow line of a flowchart: a tab, an identifier, -->, an identifier
IsArrow(line) == line[1] = "\t" /\ line[Len(line)] # "]"

DeclaredIdOf(line) == SubSeq(line, 2, IndexOf(line, "[", 1) - 1)

DeclaredLabelOf(line) == SubSeq(line, IndexOf(line, "[", 1) + 2, Len(line) - 2)

Arrow(x, y) == <<"\t">> \o x \o <<"-", "-", ">">> \o y

\* C7: for every edge (A, B) of the graph handed to a renderer the dot graph
\* has the edge (quote(B), quote(A)) and the flowchart has exactly one line
\* id(B)-->id(A), id being the identifier declared for the label; neither
\* has an arrow that is not the reverse of an edge.
C7_EdgeReversal ==
    /\ (pc = "shown" /\ output.fmt = "dot") =>
          output.dot.edges = { <<QuoteLabel(e[2]), QuoteLabel(e[1])>> : e \in passed.edges }
    /\ (pc = "shown" /\ output.fmt = "mermaid") =>
          LET lines == output.lines
              decls == { i \in 1..Len(lines) : IsDeclaration(lines[i]) }
              id == [n \in passed.nodes |->
                        DeclaredIdOf(lines[CHOOSE i \in decls :
                                               DeclaredLabelOf(lines[i]) = n])]
              want == { Arrow(id[e[2]], id[e[1]]) : e \in passed.edges }
          IN  /\ \A n \in passed.nodes :
                    Cardinality({ i \in decls : DeclaredLabelOf(lines[i]) = n }) = 1
              /\ \A i, j \in decls :
                    DeclaredIdOf(lines[i]) = DeclaredIdOf(lines[j]) => i = j
              /\ Cardinality(want) = Cardinality(passed.edges)
              /\ \A w \in want :
                    Cardinality({ i \in 1..Len(lines) : lines[i] = w }) = 1
              /\ \A i \in 1..Len(lines) : IsArrow(lines[i]) => lines[i] \in want

\* a rendered graph with an edge between two different nodes, as dot (with a
\* label that is quoted and one that is not) or as a flowchart
C7_Witness ==
    /\ pc = "shown"
    /\ \E e \in passed.edges : e[1] # e[2] /\ <<e[2], e[1]>> \notin passed.edges
    /\ \/ output.fmt = "mermaid" /\ Cardinality(passed.edges) >= 2
       \/ /\ output.fmt = "dot"
          /\ \E e \in passed.edges : QuoteLabel(e[1]) = e[1] /\ QuoteLabel(e[2]) # e[2]

\* C8: _filter and the renderers leave the graph they are handed unchanged.
C8_NoMutation ==
    /\ pc = "filtered" => graph = passed
    /\ pc = "shown" => Deref = passed

\* the labels of the outputs the matched pairs stand for
ExpectedOuts ==
    LET pairs == CollectGranular(index, target)
    IN  UNION { IF pairs[i].path = None
                THEN Range(OutsOf(pairs[i].stage.addressing))
                ELSE { o.path : o \in { n \in index.outs_graph.nodes :
                                          IsPrefix(Parts(pairs[i].path), Parts(n.path)) } } :
                i \in 1..Len(pairs) }

\* C9: in outputs mode _collect_targets returns the labels of all outputs of
\* a stage matched without a path, and of the outputs under the path of a
\* match with one; every element is the complete label of an output.
C9_OutputTargets ==
    (pc = "collected" /\ target # None /\ outs) =>
        /\ Range(targets) = ExpectedOuts
        /\ \A i \in 1..Len(targets) : OutNode(targets[i]) \in index.outs_graph.nodes

AlreadyQuoted(l) == l[1] = QUOTE /\ l[Len(l)] = QUOTE

\* C10: _quote_label returns a non-empty label unchanged exactly when it
\* begins and ends with a double quote, and wrapped in quotes otherwise, so
\* the result always begins and ends with a double quote.
C10_QuoteLabel ==
    pc = "quoted" =>
        /\ quoted = label <=> AlreadyQuoted(label)
        /\ ~AlreadyQuoted(label) => quoted = <<QUOTE>> \o label \o <<QUOTE>>
        /\ AlreadyQuoted(quoted)

====
